---- MODULE Spec2Model ----
(***************************************************************************)
(* Rank assignment of a layered graph drawing (rust-sugiyama, phase 1).    *)
(*                                                                         *)
(* The Rank Store is src/graphs/p1_layering/rank.rs (struct Ranks).  Its   *)
(* operations are translated from that file.  The Initial Ranking Builder, *)
(* the Tight-Tree Builder and the Tree-Tightening Driver are called by or  *)
(* call into rank.rs but live in sibling files; they are modelled from the *)
(* design document (sections 4.2, 4.3, 4.4).                               *)
(*                                                                         *)
(* Ranks are isize in the source and mathematical integers here: every     *)
(* rank of the model stays within a few units of 0, far from the 64-bit    *)
(* range, so no arithmetic of the model can overflow.                      *)
(***************************************************************************)
EXTENDS Integers, Sequences, FiniteSets, TLC

\* ------------------------------------------------------------------ bounds
\* Number of vertex identifiers of the store and driver specifications.
NumVertices == 3
\* Number of vertices of the graphs handed to the Initial Ranking Builder.
BuilderVertices == 4
\* Largest rank of a store of specification Spec (the least one is -1).
MaxRank == 1
\* Largest delta passed to update / tighten_edge in Spec (the least is -1).
MaxDelta == 1
\* Largest minimum_length.
MaxMinLen == 1

NodeIds == 0 .. (NumVertices - 1)
BuilderIds == 0 .. (BuilderVertices - 1)
RankValues == (0 - 1) .. MaxRank
Deltas == (0 - 1) .. MaxDelta
MinLens == 0 .. MaxMinLen
\* Ranks of the feasible stores the driver starts from.
DriverRanks == 0 .. (MaxRank + 1)

VARIABLES
    nodes,           \* graph.node_indices()
    edges,           \* the graph's edges, as <<tail, head>>
    input,           \* the HashMap a caller is about to hand to Ranks::new
    inner,           \* Ranks._inner
    minimum_length,  \* Ranks.minimum_length
    status,          \* "unbuilt" | "building" | "live" | "panicked" | "consumed"
    layers,          \* the Vec<Vec<NodeIndex>> into_layers hands to Layers::new
    call,            \* the last call made on the store, with its arguments
    before,          \* _inner (for new: the mapping supplied) when that call began
    driver           \* the Tree-Tightening Driver's locals

vars == <<nodes, edges, input, inner, minimum_length, status, layers, call, before, driver>>

\* ----------------------------------------------------------------- helpers
EmptyMap == [v \in {} |-> 0]

Range(f) == {f[x] : x \in DOMAIN f}

Maps(S, vals) == UNION {[K -> vals] : K \in SUBSET S}

\* Every order in which a HashMap with key set K may be iterated.
Orders(K) == {s \in [1 .. Cardinality(K) -> K] : \A i, j \in DOMAIN s : i # j => s[i] # s[j]}

NoCall == [name |-> "none", vertex |-> 0, tree |-> {}, delta |-> 0]

Call(n, v, t, d) == [name |-> n, vertex |-> v, tree |-> t, delta |-> d]

IdleDriver ==
    [phase |-> "idle", start |-> 0, tree |-> [vertices |-> {}, edges |-> {}],
     prev_tree |-> {}, selected |-> <<0, 0>>, covered |-> {}, iterations |-> 0]

\* --------------------------------------------------------------- Rank Store
\* A variant of is_valid that also rejects foreign keys.
is_valid_exact(ranks, graph_nodes) == DOMAIN ranks = graph_nodes

\* Ranks::is_valid: every vertex of the graph is a key of the mapping.
is_valid(ranks, graph_nodes) == \A v \in graph_nodes : v \in DOMAIN ranks

\* Ranks::new: assert!(is_valid); ok = FALSE is the failed assertion (a panic).
new(ranks, graph_nodes, min_len) ==
    IF is_valid(ranks, graph_nodes)
    THEN [ok |-> TRUE, inner |-> ranks, minimum_length |-> min_len]
    ELSE [ok |-> FALSE, inner |-> EmptyMap, minimum_length |-> min_len]

\* Ranks::slack; tail = predecessor, head = successor.
slack(r, min_len, tail, head) == r[head] - r[tail] - min_len

\* A variant of update that subtracts delta.
update_negated(r, vertex, delta) ==
    IF vertex \in DOMAIN r THEN [r EXCEPT ![vertex] = @ - delta] ELSE r

\* A variant of update that inserts an absent vertex (and_modify(..).or_insert).
update_inserting(r, vertex, delta) ==
    [v \in DOMAIN r \cup {vertex} |->
        IF v = vertex THEN (IF v \in DOMAIN r THEN r[v] + delta ELSE delta) ELSE r[v]]

\* Ranks::update: entry(vertex).and_modify(|rank| *rank += delta); an absent
\* vertex is not inserted.
update(r, vertex, delta) ==
    IF vertex \in DOMAIN r THEN [r EXCEPT ![vertex] = @ + delta] ELSE r

\* A variant of tighten_edge whose loop misses the first vertex of the tree.
tighten_edge_skipping(r, tree, delta) ==
    LET first == IF tree = {} THEN {} ELSE {CHOOSE x \in tree : \A y \in tree : x <= y}
    IN [v \in DOMAIN r |-> IF v \in tree \ first THEN r[v] + delta ELSE r[v]]

\* Ranks::tighten_edge: update(v, delta) for every v of tree.vertices().
RECURSIVE tighten_edge(_, _, _)
tighten_edge(r, tree, delta) ==
    IF tree = {} THEN r
    ELSE LET v == CHOOSE x \in tree : TRUE
         IN tighten_edge(update(r, v, delta), tree \ {v}, delta)

\* A variant of min_by that yields 0 on an empty map (unwrap_or(0)).
min_by_or_zero(r) ==
    IF DOMAIN r = {} THEN {0}
    ELSE {CHOOSE m \in Range(r) : \A x \in Range(r) : m <= x}

\* A variant of min_by with the comparison reversed.
min_by_greatest(r) ==
    IF DOMAIN r = {} THEN {}
    ELSE {CHOOSE m \in Range(r) : \A x \in Range(r) : m >= x}

\* The minimum rank, self._inner.iter().min_by(..): None ({}) on an empty map,
\* Some(m) ({m}) otherwise.
min_by(r) ==
    IF DOMAIN r = {} THEN {}
    ELSE {CHOOSE m \in Range(r) : \A x \in Range(r) : m <= x}

\* Ranks::normalize: .unwrap() of the minimum panics on None (ok = FALSE),
\* otherwise the minimum is subtracted from every rank.
normalize(r) ==
    LET minimum == min_by(r)
    IN IF minimum = {} THEN [ok |-> FALSE, inner |-> r]
       ELSE LET minimum_rank == CHOOSE m \in minimum : TRUE
            IN [ok |-> TRUE, inner |-> [v \in DOMAIN r |-> r[v] - minimum_rank]]

\* The loop of Ranks::into_layers over (vertex, layer) in map order `order`:
\* pad `acc` with empty groups while acc.len() <= layer, then push the vertex
\* onto group `layer` (index layer + 1 of a 1-based sequence).  A negative
\* layer cast to usize asks for more groups than memory holds: the loop never
\* gets to push and the process dies (ok = FALSE).
RECURSIVE into_layers_loop(_, _, _)
into_layers_loop(r, order, acc) ==
    IF order = <<>> THEN [ok |-> TRUE, layers |-> acc]
    ELSE LET vertex == Head(order)
             layer == r[vertex]
         IN IF layer < 0 THEN [ok |-> FALSE, layers |-> acc]
            ELSE LET padded == IF Len(acc) <= layer
                               THEN acc \o [i \in 1 .. (layer + 1 - Len(acc)) |-> <<>>]
                               ELSE acc
                 IN into_layers_loop(r, Tail(order),
                        [padded EXCEPT ![layer + 1] = Append(@, vertex)])

\* A variant of into_layers that trusts the caller to have normalized.
into_layers_unnormalized(r, order) ==
    LET grouped == into_layers_loop(r, order, <<>>)
    IN [ok |-> grouped.ok, inner |-> r, layers |-> grouped.layers]

\* Ranks::into_layers: normalize, then group; `order` is the iteration order of
\* the HashMap.
into_layers(r, order) ==
    LET normalized == normalize(r)
    IN IF ~normalized.ok THEN [ok |-> FALSE, inner |-> r, layers |-> <<>>]
       ELSE LET grouped == into_layers_loop(normalized.inner, order, <<>>)
            IN [ok |-> grouped.ok, inner |-> normalized.inner, layers |-> grouped.layers]

\* -------------------------------------------- the store's calls, as actions
InWindow(r) == \A v \in DOMAIN r : r[v] \in RankValues

Init ==
    /\ nodes \in SUBSET NodeIds
    /\ edges = {}
    /\ input \in Maps(NodeIds, RankValues)
    /\ minimum_length \in MinLens
    /\ inner = EmptyMap
    /\ status = "unbuilt"
    /\ layers = <<>>
    /\ call = NoCall
    /\ before = EmptyMap
    /\ driver = IdleDriver

New ==
    /\ status = "unbuilt"
    /\ LET made == new(input, nodes, minimum_length)
       IN /\ status' = IF made.ok THEN "live" ELSE "panicked"
          /\ inner' = made.inner
    /\ call' = Call("new", 0, {}, 0)
    /\ before' = input
    /\ input' = EmptyMap
    /\ UNCHANGED <<nodes, edges, minimum_length, layers, driver>>

Update ==
    /\ status = "live"
    /\ call = NoCall
    /\ \E vertex \in NodeIds, delta \in Deltas :
          /\ InWindow(update(inner, vertex, delta))
          /\ inner' = update(inner, vertex, delta)
          /\ call' = Call("update", vertex, {}, delta)
    /\ before' = inner
    /\ UNCHANGED <<nodes, edges, input, minimum_length, status, layers, driver>>

TightenEdge ==
    /\ status = "live"
    /\ call = NoCall
    /\ \E tree \in SUBSET NodeIds, delta \in Deltas :
          /\ InWindow(tighten_edge(inner, tree, delta))
          /\ inner' = tighten_edge(inner, tree, delta)
          /\ call' = Call("tighten_edge", 0, tree, delta)
    /\ before' = inner
    /\ UNCHANGED <<nodes, edges, input, minimum_length, status, layers, driver>>

Normalize ==
    /\ status = "live"
    /\ call = NoCall
    /\ LET done == normalize(inner)
       IN /\ status' = IF done.ok THEN "live" ELSE "panicked"
          /\ inner' = done.inner
    /\ call' = Call("normalize", 0, {}, 0)
    /\ before' = inner
    /\ UNCHANGED <<nodes, edges, input, minimum_length, layers, driver>>

IntoLayers ==
    /\ status = "live"
    /\ call = NoCall
    /\ \E order \in Orders(DOMAIN inner) :
          LET done == into_layers(inner, order)
          IN /\ status' = IF done.ok THEN "consumed" ELSE "panicked"
             /\ inner' = done.inner
             /\ layers' = done.layers
    /\ call' = Call("into_layers", 0, {}, 0)
    /\ before' = inner
    /\ UNCHANGED <<nodes, edges, input, minimum_length, driver>>

\* The caller is done with the finished call: its record is dropped, the
\* store is ready for the next call.
Return ==
    /\ status = "live"
    /\ call # NoCall
    /\ call' = NoCall
    /\ before' = EmptyMap
    /\ UNCHANGED <<nodes, edges, input, inner, minimum_length, status, layers, driver>>

Next == New \/ Update \/ TightenEdge \/ Normalize \/ IntoLayers \/ Return

Spec == Init /\ [][Next]_vars

\* ------------------------------------------------------------------ graphs
Predecessors(E, v) == {e[1] : e \in {x \in E : x[2] = v}}

\* Removing vertices without in-edges, one layer at a time, empties a DAG.
RECURSIVE IsAcyclic(_, _)
IsAcyclic(V, E) ==
    IF V = {} THEN TRUE
    ELSE LET sources == {v \in V : Predecessors(E, v) \cap V = {}}
         IN IF sources = {} THEN FALSE
            ELSE IsAcyclic(V \ sources, {e \in E : e[1] \notin sources})

\* The vertices joined to S by edges of E, taken in either direction.
RECURSIVE Component(_, _)
Component(S, E) ==
    LET more == S \cup {e[2] : e \in {x \in E : x[1] \in S}}
                  \cup {e[1] : e \in {x \in E : x[2] \in S}}
    IN IF more = S THEN S ELSE Component(more, E)

Connected(V, E) == V # {} /\ Component({CHOOSE v \in V : TRUE}, E) = V

\* ------------------------------------------------ Initial Ranking Builder
\* A variant of the longest-path rule that takes the minimum over the in-edges.
longest_path_rank_least(ranked, preds, min_len) ==
    IF preds = {} THEN 0
    ELSE LET candidates == {ranked[p] + min_len : p \in preds}
         IN CHOOSE m \in candidates : \A x \in candidates : m <= x

\* The longest-path rule for one vertex whose predecessors are ranked: the
\* maximum over its in-edges of rank(predecessor) + minimum_length, 0 without
\* in-edges.
longest_path_rank(ranked, preds, min_len) ==
    IF preds = {} THEN 0
    ELSE LET candidates == {ranked[p] + min_len : p \in preds}
         IN CHOOSE m \in candidates : \A x \in candidates : m >= x

InitBuilder ==
    /\ nodes = BuilderIds
    /\ edges \in SUBSET {e \in BuilderIds \X BuilderIds : e[1] # e[2]}
    /\ IsAcyclic(nodes, edges)
    /\ input = EmptyMap
    /\ minimum_length \in MinLens
    /\ inner = EmptyMap
    /\ status = "building"
    /\ layers = <<>>
    /\ call = NoCall
    /\ before = EmptyMap
    /\ driver = IdleDriver

\* One vertex of the topological order: all its predecessors are ranked.
BuilderRank ==
    /\ status = "building"
    /\ \E v \in nodes \ DOMAIN input :
          /\ Predecessors(edges, v) \subseteq DOMAIN input
          /\ input' = [u \in DOMAIN input \cup {v} |->
                          IF u = v
                          THEN longest_path_rank(input, Predecessors(edges, v), minimum_length)
                          ELSE input[u]]
    /\ UNCHANGED <<nodes, edges, inner, minimum_length, status, layers, call, before, driver>>

\* Every vertex is ranked: the mapping becomes the store.
BuilderFinish ==
    /\ status = "building"
    /\ DOMAIN input = nodes
    /\ LET made == new(input, nodes, minimum_length)
       IN /\ status' = IF made.ok THEN "live" ELSE "panicked"
          /\ inner' = made.inner
    /\ call' = Call("new", 0, {}, 0)
    /\ before' = input
    /\ input' = EmptyMap
    /\ UNCHANGED <<nodes, edges, minimum_length, layers, driver>>

NextBuilder == BuilderRank \/ BuilderFinish

SpecBuilder == InitBuilder /\ [][NextBuilder]_vars

\* ------------------------------------------------------ Tight-Tree Builder
Incident(E, v) == {e \in E : e[1] = v \/ e[2] = v}

\* Depth-first traversal from v over the edges `todo` incident to v: an edge
\* of slack 0 to an unvisited vertex joins the tree and is descended into.
RECURSIVE tight_tree_dfs(_, _, _, _, _, _)
tight_tree_dfs(r, min_len, E, tree, v, todo) ==
    IF todo = {} THEN tree
    ELSE LET e == CHOOSE x \in todo : TRUE
             w == IF e[1] = v THEN e[2] ELSE e[1]
         IN IF w \notin tree.vertices /\ slack(r, min_len, e[1], e[2]) = 0
            THEN tight_tree_dfs(r, min_len, E,
                     tight_tree_dfs(r, min_len, E,
                         [vertices |-> tree.vertices \cup {w}, edges |-> tree.edges \cup {e}],
                         w, Incident(E, w)),
                     v, todo \ {e})
            ELSE tight_tree_dfs(r, min_len, E, tree, v, todo \ {e})

tight_tree(r, min_len, E, start) ==
    tight_tree_dfs(r, min_len, E, [vertices |-> {start}, edges |-> {}], start, Incident(E, start))

\* -------------------------------------------------- Tree-Tightening Driver
\* Edges with exactly one endpoint in the tree.
Boundary(E, T) == {e \in E : (e[1] \in T) # (e[2] \in T)}

\* Step 3: the boundary edges of minimum slack.
MinSlackBoundary(r, min_len, E, T) ==
    {e \in Boundary(E, T) :
        \A x \in Boundary(E, T) : slack(r, min_len, e[1], e[2]) <= slack(r, min_len, x[1], x[2])}

\* Step 4: +slack when the edge leaves the tree, -slack when it enters it.
shift_delta(r, min_len, T, e) ==
    IF e[1] \in T THEN slack(r, min_len, e[1], e[2]) ELSE 0 - slack(r, min_len, e[1], e[2])

Spans(d, V) == d.covered \cup d.tree.vertices = V

InitDriver ==
    /\ nodes = NodeIds
    /\ minimum_length \in MinLens
    /\ inner \in [NodeIds -> DriverRanks]
    /\ edges \in SUBSET {e \in NodeIds \X NodeIds :
                            e[1] # e[2] /\ inner[e[2]] - inner[e[1]] >= minimum_length}
    /\ IsAcyclic(nodes, edges)
    /\ input = EmptyMap
    /\ status = "live"
    /\ layers = <<>>
    /\ call = NoCall
    /\ before = EmptyMap
    /\ driver = IdleDriver

\* Steps 1 and 2: the tight tree of an arbitrary start vertex.
DriverStart ==
    /\ status = "live"
    /\ driver.phase = "idle"
    /\ \E start \in nodes :
          LET tree == tight_tree(inner, minimum_length, edges, start)
              d == [driver EXCEPT !.start = start, !.tree = tree]
          IN driver' = [d EXCEPT !.phase = IF Spans(d, nodes) THEN "spanning" ELSE "growing"]
    /\ UNCHANGED <<nodes, edges, input, inner, minimum_length, status, layers, call, before>>

\* Steps 3, 4, 5 and 1, 2 again: shift the tree along a boundary edge of
\* minimum slack and recompute it.
DriverTighten ==
    /\ status = "live"
    /\ driver.phase = "growing"
    /\ \E e \in MinSlackBoundary(inner, minimum_length, edges, driver.tree.vertices) :
          LET delta == shift_delta(inner, minimum_length, driver.tree.vertices, e)
              shifted == tighten_edge(inner, driver.tree.vertices, delta)
              tree == tight_tree(shifted, minimum_length, edges, driver.start)
              d == [driver EXCEPT !.tree = tree, !.prev_tree = driver.tree.vertices,
                                  !.selected = e, !.iterations = @ + 1]
          IN /\ inner' = shifted
             /\ call' = Call("tighten_edge", 0, driver.tree.vertices, delta)
             /\ driver' = [d EXCEPT !.phase = IF Spans(d, nodes) THEN "spanning" ELSE "growing"]
    /\ before' = inner
    /\ UNCHANGED <<nodes, edges, input, minimum_length, status, layers>>

\* Step 3, no boundary edge: the tree is a whole connected component; the
\* next component is ranked on its own, from a start vertex of its own.
DriverNextComponent ==
    /\ status = "live"
    /\ driver.phase = "growing"
    /\ Boundary(edges, driver.tree.vertices) = {}
    /\ \E start \in nodes \ (driver.covered \cup driver.tree.vertices) :
          LET tree == tight_tree(inner, minimum_length, edges, start)
              d == [driver EXCEPT !.start = start, !.tree = tree,
                                  !.covered = @ \cup driver.tree.vertices]
          IN driver' = [d EXCEPT !.phase = IF Spans(d, nodes) THEN "spanning" ELSE "growing"]
    /\ UNCHANGED <<nodes, edges, input, inner, minimum_length, status, layers, call, before>>

\* Section 4.5: once spanning, the store is normalized.
DriverFinish ==
    /\ status = "live"
    /\ driver.phase = "spanning"
    /\ LET done == normalize(inner)
       IN /\ status' = IF done.ok THEN "live" ELSE "panicked"
          /\ inner' = done.inner
    /\ call' = Call("normalize", 0, {}, 0)
    /\ before' = inner
    /\ driver' = [driver EXCEPT !.phase = "done"]
    /\ UNCHANGED <<nodes, edges, input, minimum_length, layers>>

NextDriver == DriverStart \/ DriverTighten \/ DriverNextComponent \/ DriverFinish

SpecDriver == InitDriver /\ [][NextDriver]_vars

\* ------------------------------------------------------ claims on the store
MinOf(S) == CHOOSE m \in S : \A x \in S : m <= x

MaxOf(S) == CHOOSE m \in S : \A x \in S : m >= x

\* C1, as stated: Ranks::new succeeds exactly when the mapping's key set equals
\* the graph's vertex set (a missing vertex and a foreign key both reject).
C1_ExactKeySet ==
    call.name = "new" => (status = "live" <=> DOMAIN before = nodes)

\* C1, amended: Ranks::new succeeds exactly when every vertex of the graph is a
\* key of the mapping (foreign keys are accepted); a success stores the mapping
\* as given, a failure is a panic that produces no store.
C1_KeySetCoversGraph ==
    call.name = "new" =>
        /\ status = "live" <=> nodes \subseteq DOMAIN before
        /\ status = "live" => inner = before
        /\ status # "live" => status = "panicked" /\ inner = EmptyMap

C1_Witness ==
    /\ call.name = "new"
    /\ status = "panicked"
    /\ \E v \in nodes : v \notin DOMAIN before
    /\ before # EmptyMap

\* C4: on a non-empty store normalize() subtracts the minimum rank present
\* before the call from every rank, the minimum rank afterwards is 0, and a
\* second normalize() changes nothing.
C4_NormalizeToZero ==
    (call.name = "normalize" /\ DOMAIN before # {}) =>
        /\ status = "live"
        /\ DOMAIN inner = DOMAIN before
        /\ \A v \in DOMAIN before : inner[v] = before[v] - MinOf(Range(before))
        /\ MinOf(Range(inner)) = 0
        /\ normalize(inner) = [ok |-> TRUE, inner |-> inner]

C4_Witness ==
    /\ call.name = "normalize"
    /\ status = "live"
    /\ MinOf(Range(before)) < 0
    /\ \E u, v \in DOMAIN before : before[u] # before[v]

\* C5: tighten_edge(T, delta) adds delta to the rank of every stored vertex of
\* T and leaves every other rank as it was, so the difference of the ranks of
\* two vertices of T is unchanged.
C5_UniformShift ==
    call.name = "tighten_edge" =>
        /\ DOMAIN inner = DOMAIN before
        /\ \A v \in DOMAIN before :
              inner[v] = before[v] + (IF v \in call.tree THEN call.delta ELSE 0)
        /\ \A u, v \in call.tree \cap DOMAIN before :
              inner[u] - inner[v] = before[u] - before[v]

C5_Witness ==
    /\ call.name = "tighten_edge"
    /\ call.delta # 0
    /\ \E u, v \in call.tree \cap DOMAIN before : u # v /\ before[u] # before[v]
    /\ \E w \in DOMAIN before : w \notin call.tree

C8_Completeness ==
    /\ (call.name \in {"update", "tighten_edge", "normalize"} /\ DOMAIN before = nodes)
          => DOMAIN inner = nodes
    /\ (call.name = "new" /\ DOMAIN before = nodes)
          => status = "live" /\ DOMAIN inner = nodes
    /\ (call.name = "update" /\ call.vertex \notin DOMAIN before)
          => inner = before

C8_Witness ==
    /\ call.name = "update"
    /\ call.vertex \notin DOMAIN before
    /\ call.delta # 0
    /\ DOMAIN before = nodes
    /\ nodes # {}

\* C10: the store of the empty graph is constructible, and on it normalize()
\* and into_layers() panic: neither is a no-op, and no layers are produced.
C10_EmptyStorePanics ==
    /\ (call.name = "new" /\ nodes = {} /\ before = EmptyMap) => status = "live"
    /\ (call.name \in {"normalize", "into_layers"} /\ DOMAIN before = {})
          => status = "panicked" /\ layers = <<>>

C10_Witness ==
    /\ call.name = "into_layers"
    /\ nodes = {}
    /\ DOMAIN before = {}
    /\ status = "panicked"

\* ------------------------------------------- claims on builder and driver
\* C2: in every state of the driver, from a feasible store over a DAG through
\* every tightening iteration to termination, every edge (tail, head) has
\* rank(head) - rank(tail) >= minimum_length, that is, slack >= 0.
C2_Feasibility ==
    \A e \in edges :
        /\ inner[e[2]] - inner[e[1]] >= minimum_length
        /\ slack(inner, minimum_length, e[1], e[2]) >= 0

C2_Witness ==
    /\ call.name = "tighten_edge"
    /\ driver.iterations = 2
    /\ call.delta < 0
    /\ driver.phase = "spanning"
    /\ Cardinality(edges) = NumVertices

\* C3: on a connected DAG the driver makes at most V - 1 tightening
\* iterations, each of which strictly enlarges the recomputed tight tree; while
\* growing it always has a boundary edge to tighten; and once spanning, the
\* tree covers every vertex with V - 1 edges of the graph, all of slack 0.
C3_Termination ==
    Connected(nodes, edges) =>
        /\ driver.iterations <= Cardinality(nodes) - 1
        /\ call.name = "tighten_edge" =>
              /\ driver.prev_tree \subseteq driver.tree.vertices
              /\ driver.prev_tree # driver.tree.vertices
        /\ driver.phase = "growing" =>
              MinSlackBoundary(inner, minimum_length, edges, driver.tree.vertices) # {}
        /\ driver.phase \in {"spanning", "done"} =>
              /\ driver.tree.vertices = nodes
              /\ driver.tree.edges \subseteq edges
              /\ Cardinality(driver.tree.edges) = Cardinality(nodes) - 1
              /\ \A e \in driver.tree.edges : slack(inner, minimum_length, e[1], e[2]) = 0

C3_Witness ==
    /\ Connected(nodes, edges)
    /\ driver.phase = "spanning"
    /\ driver.iterations = Cardinality(nodes) - 1
    /\ call.delta # 0

\* C7: the store the Initial Ranking Builder yields ranks every vertex without
\* in-edges 0 and every other vertex at the maximum over its in-edges of
\* rank(predecessor) + minimum_length; it is feasible, and every vertex with an
\* in-edge has a tight one.  Chain 0->1->2->3 and diamond 0->1, 0->2, 1->3,
\* 2->3 with minimum_length 1 rank 0,1,2,3 and 0,1,1,2.
ChainEdges == {<<0, 1>>, <<1, 2>>, <<2, 3>>}

DiamondEdges == {<<0, 1>>, <<0, 2>>, <<1, 3>>, <<2, 3>>}

C7_LongestPathRanking ==
    status = "live" =>
        /\ DOMAIN inner = nodes
        /\ \A v \in nodes :
              LET preds == Predecessors(edges, v)
              IN IF preds = {} THEN inner[v] = 0
                 ELSE /\ inner[v] = MaxOf({inner[p] + minimum_length : p \in preds})
                      /\ \E p \in preds : slack(inner, minimum_length, p, v) = 0
        /\ \A e \in edges : slack(inner, minimum_length, e[1], e[2]) >= 0
        /\ (edges = ChainEdges /\ minimum_length = 1) =>
              inner[0] = 0 /\ inner[1] = 1 /\ inner[2] = 2 /\ inner[3] = 3
        /\ (edges = DiamondEdges /\ minimum_length = 1) =>
              inner[0] = 0 /\ inner[1] = 1 /\ inner[2] = 1 /\ inner[3] = 2

C7_Witness ==
    /\ status = "live"
    /\ edges = DiamondEdges
    /\ minimum_length = 1
    /\ inner[3] = 2

\* C9: after the driver's shift along the selected boundary edge e of slack s
\* (+s when tail is in the tree T and head is not, -s when head is in T and
\* tail is not) the slack of e is 0, and every edge inside T that had slack 0
\* still has slack 0.
C9_SignRule ==
    call.name = "tighten_edge" =>
        LET e == driver.selected
            T == driver.prev_tree
            s == slack(before, minimum_length, e[1], e[2])
        IN /\ (e[1] \in T /\ e[2] \notin T) \/ (e[2] \in T /\ e[1] \notin T)
           /\ (e[1] \in T /\ e[2] \notin T) => call.delta = s
           /\ (e[2] \in T /\ e[1] \notin T) => call.delta = 0 - s
           /\ call.tree = T
           /\ slack(inner, minimum_length, e[1], e[2]) = 0
           /\ \A x \in edges :
                 (x[1] \in T /\ x[2] \in T /\ slack(before, minimum_length, x[1], x[2]) = 0)
                    => slack(inner, minimum_length, x[1], x[2]) = 0

C9_Witness ==
    /\ call.name = "tighten_edge"
    /\ driver.selected[2] \in driver.prev_tree
    /\ driver.selected[1] \notin driver.prev_tree
    /\ call.delta < 0
    /\ \E x \in edges :
          /\ x[1] \in driver.prev_tree
          /\ x[2] \in driver.prev_tree
          /\ slack(before, minimum_length, x[1], x[2]) = 0

====
